---- MODULE Spec2Model ----
(***************************************************************************)
(* Model of the tracing_fn attribute macro (src/src/lib.rs): the parsing   *)
(* of the attribute text, the extraction of the loggable parameters, the   *)
(* generation of the replacement body, its compilation under a build       *)
(* profile, and one call of the compiled function.                         *)
(*                                                                         *)
(* Text the macro inspects character by character (the attribute text, the *)
(* level, the skip names) is a sequence of one-character strings; text the *)
(* generated code only concatenates (the events) is a TLA+ string.         *)
(***************************************************************************)
EXTENDS Integers, Sequences, FiniteSets, TLC

\* ------------------------------------------------------------------ bounds
MaxItems == 2
MaxArgVal == 1
MaxTick == 1

\* ------------------------------------------------------- character helpers
RECURSIVE Str(_)
Str(s) == IF s = <<>> THEN "" ELSE Head(s) \o Str(Tail(s))

\* char::is_whitespace and the closure |c| c == '"' || c == '\'', as sets.
Whitespace == {" "}
Quotes == {"\"", "'"}

RECURSIVE TrimStartBy(_, _)
TrimStartBy(s, chars) ==
    IF s # <<>> /\ Head(s) \in chars THEN TrimStartBy(Tail(s), chars) ELSE s

RECURSIVE TrimEndBy(_, _)
TrimEndBy(s, chars) ==
    IF s # <<>> /\ s[Len(s)] \in chars
    THEN TrimEndBy(SubSeq(s, 1, Len(s) - 1), chars)
    ELSE s

\* str::trim
Trim(s) == TrimEndBy(TrimStartBy(s, Whitespace), Whitespace)

\* A faulty TrimMatches: only the double quote is stripped.
TrimMatchesDoubleOnly(s) == TrimEndBy(TrimStartBy(s, {"\""}), {"\""})

\* str::trim_matches(|c| c == '"' || c == '\''): every leading and every
\* trailing quote character goes, of either kind.
TrimMatches(s) == TrimEndBy(TrimStartBy(s, Quotes), Quotes)

\* str::find(c): the position of the first c in s, 0 for None.
Find(s, c) ==
    IF \E i \in 1..Len(s) : s[i] = c
    THEN CHOOSE i \in 1..Len(s) : s[i] = c /\ \A j \in 1..(i - 1) : s[j] # c
    ELSE 0

\* str::split(c): the pieces between the occurrences of c, at least one.
RECURSIVE Split(_, _)
Split(s, c) ==
    LET p == Find(s, c)
    IN  IF p = 0 THEN <<s>>
        ELSE <<SubSeq(s, 1, p - 1)>> \o Split(SubSeq(s, p + 1, Len(s)), c)

Contains(seq, x) == \E i \in 1..Len(seq) : seq[i] = x

Lower == <<"a","b","c","d","e","f","g","h","i","j","k","l","m",
           "n","o","p","q","r","s","t","u","v","w","x","y","z">>
Upper == <<"A","B","C","D","E","F","G","H","I","J","K","L","M",
           "N","O","P","Q","R","S","T","U","V","W","X","Y","Z">>

UpperChar(c) ==
    IF \E i \in 1..Len(Lower) : Lower[i] = c
    THEN Upper[CHOOSE i \in 1..Len(Lower) : Lower[i] = c]
    ELSE c

ToUppercase(s) == [i \in 1..Len(s) |-> UpperChar(s[i])]

\* ------------------------------------------------------- the attribute text
K_level == <<"l","e","v","e","l">>
K_skip == <<"s","k","i","p">>
K_force == <<"f","o","r","c","e">>
V_true == <<"t","r","u","e">>
V_trace == <<"t","r","a","c","e">>

\* skip = "a,b"
I_skip_a_b == <<"s","k","i","p"," ","="," ","\"","a",",","b","\"">>

\* The items of the attribute's arguments, as their tokens print:
\*   level = "info"    level = "Warn"    level = "verbose"    level = ""
\*   skip = "a"        skip = "a,b"      skip = 'b'
\*   force = true      force = True      garbage
\*   k = 'a            k = "'a'"         k = "" a ""
\*   k = "it's"        k = 'a "x"        k = "a=b"
Items == {
    <<"l","e","v","e","l"," ","="," ","\"","i","n","f","o","\"">>,
    <<"l","e","v","e","l"," ","="," ","\"","W","a","r","n","\"">>,
    <<"l","e","v","e","l"," ","="," ","\"","v","e","r","b","o","s","e","\"">>,
    <<"l","e","v","e","l"," ","="," ","\"","\"">>,
    <<"s","k","i","p"," ","="," ","\"","a","\"">>,
    I_skip_a_b,
    <<"s","k","i","p"," ","="," ","'","b","'">>,
    <<"f","o","r","c","e"," ","="," ","t","r","u","e">>,
    <<"f","o","r","c","e"," ","="," ","T","r","u","e">>,
    <<"g","a","r","b","a","g","e">>,
    <<"k"," ","="," ","'","a">>,
    <<"k"," ","="," ","\"","'","a","'","\"">>,
    <<"k"," ","="," ","\"","\""," ","a"," ","\"","\"">>,
    <<"k"," ","="," ","\"","i","t","'","s","\"">>,
    <<"k"," ","="," ","'","a"," ","\"","x","\"">>,
    <<"k"," ","="," ","\"","a","=","b","\"">> }

\* TokenStream::to_string of the attribute's arguments: the items the user
\* wrote, separated by ", ".
RECURSIVE JoinItems(_)
JoinItems(items) ==
    IF Len(items) = 0 THEN <<>>
    ELSE IF Len(items) = 1 THEN items[1]
    ELSE items[1] \o <<",", " ">> \o JoinItems(Tail(items))

ItemSeqs == UNION { [1..n -> Items] : n \in 0..MaxItems }
Texts == { JoinItems(s) : s \in ItemSeqs }

\* ---------------------------------------------------- the annotated items
\* The item the attribute is attached to. A function carries its name, its
\* inputs (a receiver, a parameter bound to one identifier, or a parameter
\* bound by a pattern) and the place file!() and line!() name.
NA == <<"a">>
NB == <<"b">>

F_add ==
    [is_fn |-> TRUE, ident |-> "add", file |-> "example.rs", line |-> 20,
     inputs |-> << [kind |-> "ident", name |-> NA], [kind |-> "ident", name |-> NB] >>]
F_no_arg_no_ret ==
    [is_fn |-> TRUE, ident |-> "no_arg_no_ret", file |-> "example.rs", line |-> 43,
     inputs |-> << >>]
F_method ==
    [is_fn |-> TRUE, ident |-> "scale", file |-> "example.rs", line |-> 50,
     inputs |-> << [kind |-> "receiver", name |-> <<>>],
                   [kind |-> "pattern", name |-> <<>>],
                   [kind |-> "ident", name |-> NB] >>]
F_unpack ==
    [is_fn |-> TRUE, ident |-> "unpack", file |-> "example.rs", line |-> 60,
     inputs |-> << [kind |-> "pattern", name |-> <<>>] >>]
NotAFn ==
    [is_fn |-> FALSE, ident |-> "Config", file |-> "example.rs", line |-> 70,
     inputs |-> << >>]

InputItems == {F_add, F_no_arg_no_ret, F_method, F_unpack, NotAFn}

\* The associated constants of tracing::Level.
Levels == { <<"T","R","A","C","E">>, <<"D","E","B","U","G">>, <<"I","N","F","O">>,
            <<"W","A","R","N">>, <<"E","R","R","O","R">> }

\* Ident::new accepts only a valid identifier and panics otherwise.
IdentChars == { Lower[i] : i \in 1..Len(Lower) } \cup { Upper[i] : i \in 1..Len(Upper) }
                \cup {"_"}
IsIdent(s) == s # <<>> /\ \A i \in 1..Len(s) : s[i] \in IdentChars

\* {:?} of the values the model passes and returns (i32).
Debug(v) == ToString(v)
\* {:?} of a Duration of d clock ticks.
DebugDuration(d) == ToString(d) \o "ns"

\* format!: the literal pieces of the format string with the arguments in
\* the holes between them.
RECURSIVE Format(_, _)
Format(pieces, xs) ==
    IF xs = <<>> THEN pieces[1]
    ELSE pieces[1] \o xs[1] \o Format(Tail(pieces), Tail(xs))

\* [String]::join(sep)
RECURSIVE Join(_, _)
Join(xs, sep) ==
    IF xs = <<>> THEN ""
    ELSE IF Len(xs) = 1 THEN xs[1]
    ELSE xs[1] \o sep \o Join(Tail(xs), sep)

EntryFmt == << ">>> [", "] #Args: ", " --- ", ":", "" >>
ExitFmtForced == << "<<< [", "] #Ret: ", ", duration: ", "" >>
ExitFmtConditional == << "<<< [", "] #Ret:  ", ", duration: ", "" >>

\* ------------------------------------------------------------ the parser
Fragments(text) == IF text = <<>> THEN <<>> ELSE Split(text, ",")

ArgKey(a) == Trim(SubSeq(a, 1, Find(a, "=") - 1))

ArgValue(a) == TrimMatches(Trim(SubSeq(a, Find(a, "=") + 1, Len(a))))

SkipList(v) == [i \in 1..Len(Split(v, ",")) |-> Trim(Split(v, ",")[i])]

\* A faulty ApplyArg: a fragment with an unknown key sets the level.
ApplyArgUnknownAsLevel(o, a) ==
    IF Find(a, "=") = 0 THEN o
    ELSE LET k == ArgKey(a)
             v == ArgValue(a)
         IN  [level |-> IF k \notin {K_skip, K_force} THEN v ELSE o.level,
              skip_args |-> IF k = K_skip THEN SkipList(v) ELSE o.skip_args,
              force |-> IF k = K_force THEN v = V_true ELSE o.force]

\* The body of the loop over the fragments: the options after fragment a
\* (already trimmed), from the options o before it.
ApplyArg(o, a) ==
    IF Find(a, "=") = 0 THEN o
    ELSE LET k == ArgKey(a)
             v == ArgValue(a)
         IN  [level |-> IF k = K_level THEN v ELSE o.level,
              skip_args |-> IF k = K_skip THEN SkipList(v) ELSE o.skip_args,
              force |-> IF k = K_force THEN v = V_true ELSE o.force]

DefaultOptions == [level |-> V_trace, skip_args |-> <<>>, force |-> FALSE]

RECURSIVE ApplyArgs(_, _)
ApplyArgs(o, frags) ==
    IF frags = <<>> THEN o
    ELSE ApplyArgs(ApplyArg(o, Trim(Head(frags))), Tail(frags))

\* The whole parse of an attribute text.
ParseArgs(text) == ApplyArgs(DefaultOptions, Fragments(text))

\* ------------------------------------------------------- the generated code
\* The display fragment pushed for a parameter bound to identifier name.
ArgValueFor(name, skip) ==
    [name |-> name, redacted |-> Contains(skip, name)]

\* Which of the two quote! templates is emitted.
Expand(f, fn, lvl, values) ==
    [cfg_gated |-> ~f,
     level_ident |-> lvl,
     fn_name_str |-> fn.ident,
     file |-> fn.file,
     line |-> fn.line,
     arg_values |-> values,
     entry_fmt |-> EntryFmt,
     exit_fmt |-> IF f THEN ExitFmtForced ELSE ExitFmtConditional]

NoCode ==
    [cfg_gated |-> FALSE, level_ident |-> <<>>, fn_name_str |-> "", file |-> "",
     line |-> 0, arg_values |-> <<>>, entry_fmt |-> <<>>, exit_fmt |-> <<>>]

\* A faulty Instrumented: force is not looked at.
InstrumentedDebugOnly(code, debug) == debug

\* Whether the instrumentation survives #[cfg(debug_assertions)].
Instrumented(code, debug) == ~code.cfg_gated \/ debug

\* The names a call binds: the parameters bound to one identifier.
IdentNames(fn) ==
    { Str(fn.inputs[i].name) : i \in { j \in 1..Len(fn.inputs) : fn.inputs[j].kind = "ident" } }

ArgVals == 0..MaxArgVal
Ticks == 0..MaxTick

\* What a computation came to: nothing yet, a value, or a panic unwinding.
Nothing == [kind |-> "none", v |-> 0]
Returned(v) == [kind |-> "value", v |-> v]
Panic == [kind |-> "panic", v |-> 0]

\* A faulty EvalArgValue: the skip decision is not looked at.
EvalArgValueUnredacted(av, bound) ==
    Format(<<"", "=", "">>, <<Str(av.name), Debug(bound[Str(av.name)])>>)

\* One element of vec![#(#arg_values),*] evaluated in a call.
EvalArgValue(av, bound) ==
    IF av.redacted
    THEN Format(<<"", "=", "">>, <<Str(av.name), "***">>)
    ELSE Format(<<"", "=", "">>, <<Str(av.name), Debug(bound[Str(av.name)])>>)

\* A faulty ArgsStr: the fragments are joined without the space.
ArgsStrNoSpace(xs) == IF xs = <<>> THEN "()" ELSE Join(xs, ",")

\* if __tracing_fn_args.is_empty() { "()" } else { .join(", ") }
ArgsStr(xs) == IF xs = <<>> THEN "()" ELSE Join(xs, ", ")

\* tracing::event!(level, fmt, values..): the event the sink receives.
Event(kind, lvl, fmt, values) ==
    [kind |-> kind, level |-> lvl, values |-> values, text |-> Format(fmt, values)]

EntryEvent(code, str) ==
    Event("entry", code.level_ident, code.entry_fmt,
          <<code.fn_name_str, str, code.file, ToString(code.line)>>)

ExitEvent(code, result, duration) ==
    Event("exit", code.level_ident, code.exit_fmt,
          <<code.fn_name_str, Debug(result), DebugDuration(duration)>>)

\* ------------------------------------------------------------------ state
VARIABLES
    pc,             \* where the expansion, the build or the call stands
    args_string,    \* the attribute text
    frag_i,         \* the fragment the parse loop is at
    arg, eq_pos, key, value,    \* the locals of the last parse iteration
    level, skip_args, force,    \* the parsed options
    input_fn,       \* the annotated item
    arg_i,          \* the input the extraction loop is at
    arg_names, arg_values,
    expanded,       \* the generated function
    debug_assertions,   \* the build profile: TRUE for debug
    instrumented,   \* whether the compiled body holds the instrumentation
    bound,          \* the values a call binds to the identifier parameters
    tracing_fn_args, tracing_fn_args_str,
    clock, tracing_fn_start, tracing_fn_duration,
    body_outcome,   \* what the original body came to
    tracing_fn_result,
    events,         \* what the tracing sink received: <<level, text>>
    trace,          \* the steps of the call, in order
    caller_got      \* what the call came to for the caller

parse_vars == <<args_string, frag_i, arg, eq_pos, key, value, level, skip_args, force>>
gen_vars == <<input_fn, arg_i, arg_names, arg_values, expanded>>
build_vars == <<debug_assertions, instrumented>>
call_vars == <<bound, tracing_fn_args, tracing_fn_args_str, clock, tracing_fn_start,
               tracing_fn_duration, body_outcome, tracing_fn_result, events, trace,
               caller_got>>
vars == <<pc, parse_vars, gen_vars, build_vars, call_vars>>

Init ==
    /\ pc = "parse_args"
    /\ args_string \in Texts
    /\ frag_i = 1
    /\ arg = <<>>
    /\ eq_pos = 0
    /\ key = <<>>
    /\ value = <<>>
    /\ level = DefaultOptions.level
    /\ skip_args = DefaultOptions.skip_args
    /\ force = DefaultOptions.force
    /\ input_fn = NotAFn
    /\ arg_i = 1
    /\ arg_names = <<>>
    /\ arg_values = <<>>
    /\ expanded = NoCode
    /\ debug_assertions = FALSE
    /\ instrumented = FALSE
    /\ bound = <<>>
    /\ tracing_fn_args = <<>>
    /\ tracing_fn_args_str = ""
    /\ clock = 0
    /\ tracing_fn_start = 0
    /\ tracing_fn_duration = 0
    /\ body_outcome = Nothing
    /\ tracing_fn_result = 0
    /\ events = <<>>
    /\ trace = <<>>
    /\ caller_got = Nothing

\* ------------------------------------------------------------ expansion
\* One iteration of the loop over args_string.split(',').
ParseArg ==
    /\ pc = "parse_args"
    /\ frag_i <= Len(Fragments(args_string))
    /\ LET a == Trim(Fragments(args_string)[frag_i])
           o == ApplyArg([level |-> level, skip_args |-> skip_args, force |-> force], a)
       IN  /\ arg' = a
           /\ eq_pos' = Find(a, "=")
           /\ key' = IF Find(a, "=") = 0 THEN <<>> ELSE ArgKey(a)
           /\ value' = IF Find(a, "=") = 0 THEN <<>> ELSE ArgValue(a)
           /\ level' = o.level
           /\ skip_args' = o.skip_args
           /\ force' = o.force
    /\ frag_i' = frag_i + 1
    /\ UNCHANGED <<pc, args_string, gen_vars, build_vars, call_vars>>

\* parse_macro_input!(input as ItemFn): past the parse loop, whose locals go
\* out of scope; an item that is no function ends the expansion in an error.
ParseInput ==
    /\ pc = "parse_args"
    /\ frag_i > Len(Fragments(args_string))
    /\ \E item \in InputItems :
        /\ input_fn' = item
        /\ pc' = IF item.is_fn THEN "extract" ELSE "input_error"
    /\ args_string' = <<>>
    /\ frag_i' = 1
    /\ arg' = <<>>
    /\ eq_pos' = 0
    /\ key' = <<>>
    /\ value' = <<>>
    /\ UNCHANGED <<level, skip_args, force, arg_i, arg_names, arg_values, expanded,
                   build_vars, call_vars>>

\* One iteration of the loop over fn_sig.inputs.
ExtractArg ==
    /\ pc = "extract"
    /\ arg_i <= Len(input_fn.inputs)
    /\ LET in == input_fn.inputs[arg_i]
       IN  IF in.kind = "ident"
           THEN /\ arg_names' = Append(arg_names, in.name)
                /\ arg_values' = Append(arg_values, ArgValueFor(in.name, skip_args))
           ELSE UNCHANGED <<arg_names, arg_values>>
    /\ arg_i' = arg_i + 1
    /\ UNCHANGED <<pc, parse_vars, input_fn, expanded, build_vars, call_vars>>

\* Ident::new(&level.to_uppercase(), ..) and the quote! of the new function.
Generate ==
    /\ pc = "extract"
    /\ arg_i > Len(input_fn.inputs)
    /\ IF IsIdent(ToUppercase(level))
       THEN /\ expanded' = Expand(force, input_fn, ToUppercase(level), arg_values)
            /\ pc' = "expanded"
       ELSE /\ pc' = "macro_panic"
            /\ UNCHANGED expanded
    /\ UNCHANGED <<parse_vars, input_fn, arg_i, arg_names, arg_values, build_vars, call_vars>>

\* ----------------------------------------------------------------- build
\* The compiler on the generated function under a build profile: what
\* #[cfg(debug_assertions)] removes is never resolved; what stays must name a
\* constant of tracing::Level.
LevelResolves(code, kept) == kept => code.level_ident \in Levels

Compile ==
    /\ pc = "expanded"
    /\ \E debug \in BOOLEAN :
        /\ debug_assertions' = debug
        /\ instrumented' = Instrumented(expanded, debug)
        /\ pc' = IF LevelResolves(expanded, Instrumented(expanded, debug))
                 THEN "ready" ELSE "compile_error"
    /\ UNCHANGED <<parse_vars, gen_vars, call_vars>>

\* ------------------------------------------------------------------ call
Call ==
    /\ pc = "ready"
    /\ \E b \in [IdentNames(input_fn) -> ArgVals] : bound' = b
    /\ pc' = IF instrumented THEN "entry" ELSE "plain_body"
    /\ UNCHANGED <<parse_vars, gen_vars, build_vars, tracing_fn_args, tracing_fn_args_str,
                   clock, tracing_fn_start, tracing_fn_duration, body_outcome,
                   tracing_fn_result, events, trace, caller_got>>

\* The first block: the argument vector, its joined string, the entry event.
EmitEntry ==
    /\ pc = "entry"
    /\ LET xs == [i \in 1..Len(expanded.arg_values) |->
                      EvalArgValue(expanded.arg_values[i], bound)]
       IN  /\ tracing_fn_args' = xs
           /\ tracing_fn_args_str' = ArgsStr(xs)
           /\ events' = Append(events, EntryEvent(expanded, ArgsStr(xs)))
    /\ trace' = Append(trace, "entry")
    /\ pc' = "start"
    /\ UNCHANGED <<parse_vars, gen_vars, build_vars, bound, clock, tracing_fn_start,
                   tracing_fn_duration, body_outcome, tracing_fn_result, caller_got>>

\* let __tracing_fn_start = Instant::now();
StartClock ==
    /\ pc = "start"
    /\ tracing_fn_start' = clock
    /\ trace' = Append(trace, "start")
    /\ pc' = "body"
    /\ UNCHANGED <<parse_vars, gen_vars, build_vars, bound, tracing_fn_args,
                   tracing_fn_args_str, clock, tracing_fn_duration, body_outcome,
                   tracing_fn_result, events, caller_got>>

\* (move || #fn_block)() returning a value after some time.
BodyReturns ==
    /\ pc = "body"
    /\ \E v \in ArgVals, d \in Ticks :
        /\ body_outcome' = Returned(v)
        /\ tracing_fn_result' = v
        /\ clock' = clock + d
    /\ trace' = Append(trace, "body")
    /\ pc' = "end"
    /\ UNCHANGED <<parse_vars, gen_vars, build_vars, bound, tracing_fn_args,
                   tracing_fn_args_str, tracing_fn_start, tracing_fn_duration, events,
                   caller_got>>

\* A faulty BodyPanics: the unwind is caught and the call goes on.
BodyPanicsCaught ==
    /\ pc \in {"body", "plain_body"}
    /\ \E d \in Ticks : clock' = clock + d
    /\ body_outcome' = Panic
    /\ tracing_fn_result' = 0
    /\ trace' = Append(trace, "body")
    /\ pc' = "end"
    /\ UNCHANGED <<parse_vars, gen_vars, build_vars, bound, tracing_fn_args,
                   tracing_fn_args_str, tracing_fn_start, tracing_fn_duration,
                   events, caller_got>>

\* (move || #fn_block)() panicking: nothing catches the unwind, the rest of
\* the function is skipped.
BodyPanics ==
    /\ pc \in {"body", "plain_body"}
    /\ \E d \in Ticks : clock' = clock + d
    /\ body_outcome' = Panic
    /\ caller_got' = Panic
    /\ trace' = Append(trace, "body")
    /\ pc' = "panicked"
    /\ UNCHANGED <<parse_vars, gen_vars, build_vars, bound, tracing_fn_args,
                   tracing_fn_args_str, tracing_fn_start, tracing_fn_duration,
                   tracing_fn_result, events>>

\* let __tracing_fn_duration = __tracing_fn_start.elapsed();
EndClock ==
    /\ pc = "end"
    /\ tracing_fn_duration' = clock - tracing_fn_start
    /\ trace' = Append(trace, "end")
    /\ pc' = "exit"
    /\ UNCHANGED <<parse_vars, gen_vars, build_vars, bound, tracing_fn_args,
                   tracing_fn_args_str, clock, tracing_fn_start, body_outcome,
                   tracing_fn_result, events, caller_got>>

EmitExit ==
    /\ pc = "exit"
    /\ events' = Append(events, ExitEvent(expanded, tracing_fn_result, tracing_fn_duration))
    /\ trace' = Append(trace, "exit")
    /\ pc' = "return"
    /\ UNCHANGED <<parse_vars, gen_vars, build_vars, bound, tracing_fn_args,
                   tracing_fn_args_str, clock, tracing_fn_start, tracing_fn_duration,
                   body_outcome, tracing_fn_result, caller_got>>

\* A faulty ReturnValue: a default value is returned.
ReturnDefault(result) == 0

\* The tail expression __tracing_fn_result.
ReturnValue(result) == result

Return ==
    /\ pc = "return"
    /\ caller_got' = Returned(ReturnValue(tracing_fn_result))
    /\ trace' = Append(trace, "return")
    /\ pc' = "done"
    /\ UNCHANGED <<parse_vars, gen_vars, build_vars, bound, tracing_fn_args,
                   tracing_fn_args_str, clock, tracing_fn_start, tracing_fn_duration,
                   body_outcome, tracing_fn_result, events>>

\* #[cfg(not(debug_assertions))] (move || #fn_block)(): the body alone.
PlainBody ==
    /\ pc = "plain_body"
    /\ \E v \in ArgVals, d \in Ticks :
        /\ body_outcome' = Returned(v)
        /\ caller_got' = Returned(v)
        /\ clock' = clock + d
    /\ trace' = <<"body", "return">>
    /\ pc' = "done"
    /\ UNCHANGED <<parse_vars, gen_vars, build_vars, bound, tracing_fn_args,
                   tracing_fn_args_str, tracing_fn_start, tracing_fn_duration,
                   tracing_fn_result, events>>

Next ==
    \/ ParseArg
    \/ ParseInput
    \/ ExtractArg
    \/ Generate
    \/ Compile
    \/ Call
    \/ EmitEntry
    \/ StartClock
    \/ BodyReturns
    \/ BodyPanics
    \/ EndClock
    \/ EmitExit
    \/ Return
    \/ PlainBody

Spec == Init /\ [][Next]_vars

\* ------------------------------------------------------------ the claims
Options == [level |-> level, skip_args |-> skip_args, force |-> force]
ParseDone == pc = "parse_args" /\ frag_i > Len(Fragments(args_string))
CallOver == pc \in {"done", "panicked"}
HasEvent(k) == \E i \in 1..Len(events) : events[i].kind = k
InTrace(step) == \E i \in 1..Len(trace) : trace[i] = step
IsPrefix(p, q) == Len(p) <= Len(q) /\ SubSeq(q, 1, Len(p)) = p

\* C1: a call emits the entry event and, returning normally, the exit event
\* if and only if the parsed force flag is true or the build profile is
\* debug; with force false under the release profile a call emits no event,
\* samples no clock and only evaluates the original body.
C1_EventsIffForceOrDebug ==
    /\ CallOver => (HasEvent("entry") <=> (force \/ debug_assertions))
    /\ pc = "done" => (HasEvent("exit") <=> (force \/ debug_assertions))
    /\ (CallOver /\ ~force /\ ~debug_assertions) =>
          /\ events = <<>>
          /\ ~InTrace("start") /\ ~InTrace("end")
          /\ trace \in { <<"body">>, <<"body", "return">> }

C1_Witness ==
    /\ pc = "done" /\ force /\ ~debug_assertions
    /\ HasEvent("entry") /\ HasEvent("exit")

\* C2: an instrumented call that returns normally goes through entry event,
\* start-clock sample, the original body exactly once, end-clock sample, exit
\* event, return, in that order; the caller receives the value the body
\* produced, which is the value the exit event renders.
C2_Order == <<"entry", "start", "body", "end", "exit", "return">>

\* C2: the order of an instrumented call and the value it returns.
C2_InstrumentedCallOrder ==
    /\ (instrumented /\ pc # "panicked") => IsPrefix(trace, C2_Order)
    /\ (instrumented /\ pc = "done") =>
          /\ trace = C2_Order
          /\ body_outcome.kind = "value"
          /\ caller_got = body_outcome
          /\ Len(events) = 2
          /\ events[1].kind = "entry" /\ events[2].kind = "exit"
          /\ events[2].values[2] = ToString(body_outcome.v)

C2_Witness ==
    /\ pc = "done" /\ instrumented
    /\ body_outcome = Returned(1)
    /\ caller_got = Returned(1)

\* C3: two calls that differ only in the values of parameters named in the
\* skip set produce the same entry-event argument string; a skipped parameter
\* is rendered name=*** and every other simple-identifier parameter
\* name=<debug representation of its value>.
C3_Skipped(n) == \E i \in 1..Len(skip_args) : Str(skip_args[i]) = n

C3_ArgsOf(b) ==
    ArgsStr([i \in 1..Len(expanded.arg_values) |-> EvalArgValue(expanded.arg_values[i], b)])

C3_Idents == SelectSeq(input_fn.inputs, LAMBDA in : in.kind = "ident")

\* C3: skipped values do not reach the entry event.
C3_SkippedValuesDoNotShow ==
    Len(events) >= 1 =>
        /\ \A b2 \in [IdentNames(input_fn) -> ArgVals] :
              (\A n \in IdentNames(input_fn) : ~C3_Skipped(n) => b2[n] = bound[n])
                  => /\ C3_ArgsOf(b2) = tracing_fn_args_str
                     /\ C3_ArgsOf(b2) = events[1].values[2]
        /\ Len(tracing_fn_args) = Len(C3_Idents)
        /\ \A i \in 1..Len(C3_Idents) :
              LET n == Str(C3_Idents[i].name)
              IN  tracing_fn_args[i] =
                      IF C3_Skipped(n) THEN n \o "=***"
                      ELSE n \o "=" \o ToString(bound[n])

C3_Witness ==
    /\ pc = "start"
    /\ input_fn = F_add
    /\ skip_args = <<NA>>
    /\ bound["a"] = 1
    /\ tracing_fn_args = <<"a=***", "b=0">>

\* C4: an attribute carrying skip = "a,b" parses to a skip set that contains
\* both a and b.
C4_Texts ==
    { JoinItems(Append(s, I_skip_a_b)) :
        s \in UNION { [1..n -> Items] : n \in 0..(MaxItems - 1) } }

\* C4: every name of a multi-name skip value is in the parsed skip list.
C4_SkipListHoldsEveryName ==
    (ParseDone /\ args_string \in C4_Texts) =>
        Contains(skip_args, NA) /\ Contains(skip_args, NB)

\* C5: the entry event's argument string is () when the function has no
\* simple-identifier parameter; otherwise it is one fragment per
\* simple-identifier parameter, in declaration order, joined with ", ", with
\* no fragment for a receiver or a pattern-bound parameter.
RECURSIVE C5_Joined(_)
C5_Joined(xs) ==
    IF Len(xs) = 1 THEN xs[1]
    ELSE xs[1] \o ", " \o C5_Joined(Tail(xs))

C5_NamedParams ==
    LET ix == { i \in 1..Len(input_fn.inputs) : input_fn.inputs[i].name # <<>> }
        Nth[k \in 1..Cardinality(ix)] ==
            CHOOSE i \in ix : Cardinality({ j \in ix : j < i }) = k - 1
    IN  [k \in 1..Cardinality(ix) |-> Str(input_fn.inputs[Nth[k]].name)]

\* C5: the shape of the entry event's argument string.
C5_ArgumentString ==
    Len(events) >= 1 =>
        /\ Len(tracing_fn_args) = Len(C5_NamedParams)
        /\ \A k \in 1..Len(C5_NamedParams) :
              \/ tracing_fn_args[k] = C5_NamedParams[k] \o "=***"
              \/ \E v \in ArgVals : tracing_fn_args[k] = C5_NamedParams[k] \o "=" \o ToString(v)
        /\ tracing_fn_args_str =
              IF C5_NamedParams = <<>> THEN "()" ELSE C5_Joined(tracing_fn_args)
        /\ events[1].values[2] = tracing_fn_args_str

C5_Witness ==
    /\ pc = "start"
    /\ input_fn = F_add
    /\ tracing_fn_args_str = "a=1, b=***"

\* C6: the parse raises no error, and a fragment without = or with a key other
\* than level, skip, force contributes nothing: the parsed options equal those
\* of the same text with the fragment removed, and with no recognized fragment
\* they are the defaults.
C6_Ignored(f) ==
    LET a == Trim(f)
    IN  \/ \A i \in 1..Len(a) : a[i] # "="
        \/ Trim(SubSeq(a, 1, Find(a, "=") - 1)) \notin {K_level, K_skip, K_force}

C6_Without(frags, j) ==
    [i \in 1..(Len(frags) - 1) |-> IF i < j THEN frags[i] ELSE frags[i + 1]]

RECURSIVE C6_Rejoin(_)
C6_Rejoin(frags) ==
    IF frags = <<>> THEN <<>>
    ELSE IF Len(frags) = 1 THEN frags[1]
    ELSE frags[1] \o <<",">> \o C6_Rejoin(Tail(frags))

\* C6: ignored fragments leave the parsed options as they are.
C6_IgnoredFragmentsContributeNothing ==
    /\ pc = "parse_args" => eq_pos <= Len(arg)
    /\ ParseDone =>
        LET frags == Fragments(args_string)
        IN  /\ \A j \in 1..Len(frags) :
                  C6_Ignored(frags[j]) =>
                      ParseArgs(C6_Rejoin(C6_Without(frags, j))) = Options
            /\ (\A j \in 1..Len(frags) : C6_Ignored(frags[j])) => Options = DefaultOptions

C6_Witness ==
    /\ ParseDone
    /\ force
    /\ \E j \in 1..Len(Fragments(args_string)) :
          Trim(Fragments(args_string)[j]) = <<"g","a","r","b","a","g","e">>

\* C7: generation succeeds if and only if the parsed level, uppercased, is one
\* of TRACE, DEBUG, INFO, WARN, ERROR; any other level makes it fail; and on
\* success the entry and the exit event carry that severity.
C7_Built == pc \notin {"parse_args", "input_error", "extract", "expanded"}

\* C7: the level alone decides whether generation succeeds.
C7_LevelDecidesGeneration ==
    C7_Built =>
        /\ pc \in {"macro_panic", "compile_error"} <=> ToUppercase(level) \notin Levels
        /\ \A i \in 1..Len(events) : events[i].level = ToUppercase(level)

\* C8: when the original body panics in an instrumented call, the panic
\* reaches the caller, the entry event has been emitted, no exit event is
\* emitted, and the call never turns into a normal return.
C8_PanicPropagates ==
    body_outcome = Panic =>
        /\ pc = "panicked"
        /\ caller_got = Panic
        /\ ~HasEvent("exit")
        /\ ~InTrace("return")
        /\ instrumented =>
              /\ Len(events) = 1 /\ events[1].kind = "entry"
              /\ trace = <<"entry", "start", "body">>

C8_Witness ==
    /\ pc = "panicked"
    /\ instrumented
    /\ body_outcome = Panic
    /\ HasEvent("entry")

\* C9: the events of conditional mode are textually those of forced mode:
\* in both, the exit event reads
\* <<< [<fn_name>] #Ret: <debug_repr>, duration: <duration> and the entry event
\* >>> [<fn_name>] #Args: <args_or_parens> --- <source_file>:<line>.
C9_SameTextInBothModes ==
    \A i \in 1..Len(events) :
        LET e == events[i]
        IN  /\ e.kind = "entry" =>
                  e.text = ">>> [" \o input_fn.ident \o "] #Args: " \o tracing_fn_args_str
                           \o " --- " \o input_fn.file \o ":" \o ToString(input_fn.line)
            /\ e.kind = "exit" =>
                  e.text = "<<< [" \o input_fn.ident \o "] #Ret: "
                           \o ToString(body_outcome.v) \o ", duration: "
                           \o ToString(tracing_fn_duration) \o "ns"

\* C10 as stated: the key is the trimmed text before the first =, and the
\* value is the trimmed text after it with one matching pair of surrounding
\* quotes removed, and only a matching pair.
C10_Before == Trim(SubSeq(arg, 1, eq_pos - 1))
C10_After == Trim(SubSeq(arg, eq_pos + 1, Len(arg)))

C10_StripOnePair(s) ==
    IF Len(s) >= 2 /\ s[1] \in Quotes /\ s[Len(s)] = s[1]
    THEN SubSeq(s, 2, Len(s) - 1)
    ELSE s

\* C10 as stated: one matching pair of quotes is stripped, and only that.
C10_OneMatchingPairStripped ==
    (pc = "parse_args" /\ eq_pos > 0) =>
        /\ key = C10_Before
        /\ value = C10_StripOnePair(C10_After)

\* C10 amended: the key is the trimmed text before the first =, and the value
\* is the trimmed text after it with every leading and every trailing quote
\* character removed, of either kind, matched or not; quote characters inside
\* the value stay.
C10_IsTrimOf(r, t, chars) ==
    \E i \in 1..(Len(t) + 1) : \E j \in (i - 1)..Len(t) :
        /\ r = SubSeq(t, i, j)
        /\ \A k \in 1..(i - 1) : t[k] \in chars
        /\ \A k \in (j + 1)..Len(t) : t[k] \in chars
        /\ r = <<>> \/ (r[1] \notin chars /\ r[Len(r)] \notin chars)

\* C10 amended: all leading and trailing quote characters are stripped.
C10_AllOuterQuotesStripped ==
    (pc = "parse_args" /\ eq_pos > 0) =>
        /\ arg[eq_pos] = "="
        /\ \A k \in 1..(eq_pos - 1) : arg[k] # "="
        /\ C10_IsTrimOf(key, SubSeq(arg, 1, eq_pos - 1), {" "})
        /\ \E i \in (eq_pos + 1)..(Len(arg) + 1) : \E j \in (i - 1)..Len(arg) :
              /\ C10_IsTrimOf(SubSeq(arg, i, j), SubSeq(arg, eq_pos + 1, Len(arg)), {" "})
              /\ C10_IsTrimOf(value, SubSeq(arg, i, j), {"\"", "'"})

C10_Witness ==
    /\ pc = "parse_args"
    /\ arg = <<"s", "k", "i", "p", " ", "=", " ", "\"", "a">>
    /\ key = K_skip
    /\ value = NA
====
